---- MODULE Spec2Model ----
(***************************************************************************)
(* Model of the Evaluator of src/src/evaluator.js: a cache of getter       *)
(* values keyed by the getter's hash code, consulted and refreshed by      *)
(* evaluate and emptied by untrack and reset.                               *)
(***************************************************************************)
EXTENDS Integers, Sequences, FiniteSets, TLC

VARIABLES cachedGetters, last, frames

vars == <<cachedGetters, last, frames>>

\* The state trees evaluate is called with hold two keys: "a", with a value in
\* 0..MaxA, which the getters read first, and "u", a flag of the tree.
MaxA == 1
UValues == {0, 1}

(***************************************************************************)
(* Values.  A plain JS primitive, an Immutable collection, a plain mutable *)
(* object (identified by id, its content in v) or null.                    *)
(***************************************************************************)
NullVal == [k |-> "null", id |-> 0, v |-> 0]
Prim(n) == [k |-> "prim", id |-> 0, v |-> n]
Imm(n) == [k |-> "imm", id |-> 0, v |-> n]
Obj(i, n) == [k |-> "obj", id |-> i, v |-> n]

\* Structural comparison of two values: the identity of an object is not
\* part of what it holds.
SameContent(x, y) == x.k = y.k /\ x.v = y.v

(***************************************************************************)
(* State trees.  tree = FALSE is a primitive handed in as the state, p its *)
(* value; nkeys are the numeric top-level keys of the tree.                *)
(***************************************************************************)
Tree(a, u) == [tree |-> TRUE, p |-> 0, a |-> a, u |-> u, nkeys |-> {}]
PrimState == [tree |-> FALSE, p |-> 7, a |-> 0, u |-> 0, nkeys |-> {}]
Trees == {Tree(a, u) : a \in 0..MaxA, u \in UValues}
States == Trees \cup {PrimState}

\* state.hashCode() of a tree: content-determined and collision-free.
stateHashCode(state) ==
    1 + state.a * Cardinality(UValues) + state.u
      + (MaxA + 1) * Cardinality(UValues) * Cardinality(state.nkeys)

\* state.getIn([key])
getIn(state, key) == IF key = "a" THEN Prim(state.a) ELSE Prim(state.u)

(***************************************************************************)
(* What evaluate is handed: a KeyPath, a Getter or neither.                *)
(*   G1 = [["a"], f1]       f1 throws on 0, else x * 10                    *)
(*   G2 = [G1, ["u"], f2]   f2 = a new plain object {v: x + y}             *)
(*   G3 = [G1, G2, f3]      f3 = an Immutable value of x and y.v           *)
(***************************************************************************)
KeyPath(key) == [kind |-> "keypath", name |-> key]
Getter(name) == [kind |-> "getter", name |-> name]
Invalid == [kind |-> "invalid", name |-> "none"]

GetterNames == {"G1", "G2", "G3"}
Getters == {Getter(n) : n \in GetterNames}
KeyPaths == {KeyPath("a")}
Items == Getters \cup KeyPaths \cup {Invalid}

isKeyPath(item) == item.kind = "keypath"
isGetter(item) == item.kind = "getter"

getDeps(getter) ==
    CASE getter.name = "G1" -> <<KeyPath("a")>>
      [] getter.name = "G2" -> <<Getter("G1"), KeyPath("u")>>
      [] getter.name = "G3" -> <<Getter("G1"), Getter("G2")>>

\* hashCode(getter): one code per getter, no two alike.
hashCode(getter) ==
    CASE getter.name = "G1" -> 101
      [] getter.name = "G2" -> 102
      [] getter.name = "G3" -> 103

Codes == {hashCode(g) : g \in Getters}

\* getComputeFn(getter).apply(null, args); fresh is the identity a newly
\* built object gets.
computeFn(getter, args, fresh) ==
    CASE getter.name = "G1" ->
           IF args[1].v = 0
           THEN [err |-> "compute", ret |-> NullVal]
           ELSE [err |-> "none", ret |-> Prim(args[1].v * 10)]
      [] getter.name = "G2" ->
           [err |-> "none", ret |-> Obj(fresh, args[1].v + args[2].v)]
      [] getter.name = "G3" ->
           [err |-> "none", ret |-> Imm(args[1].v * 100 + args[2].v)]

(***************************************************************************)
(* The cache, this.__cachedGetters: hash code -> entry.                    *)
(***************************************************************************)
NullHash == 0 - 1
NullArgs == [null |-> TRUE, vals |-> <<>>]
Placeholder == [stateHashCode |-> NullHash, value |-> NullVal, args |-> NullArgs]

EmptyCache == [c \in {} |-> Placeholder]

set(cache, code, entry) ==
    [c \in DOMAIN cache \cup {code} |-> IF c = code THEN entry ELSE cache[c]]

remove(cache, code) == [c \in DOMAIN cache \ {code} |-> cache[c]]

has(cache, code) == code \in DOMAIN cache

\* An identity no object the cache holds has.
freshId(cache) ==
    CHOOSE i \in 1..(Cardinality(Codes) + 1) :
        /\ \A c \in DOMAIN cache : cache[c].value.id # i
        /\ \A j \in 1..(i - 1) : \E c \in DOMAIN cache : cache[c].value.id = j

\* toImmutable of one value of the args array
toImmutable(val) == IF val.k = "obj" THEN Imm(val.v) ELSE val

toImmutableArgs(args) ==
    [null |-> FALSE, vals |-> [i \in DOMAIN args |-> toImmutable(args[i])]]

cloneDeep(val, fresh) == Obj(fresh, val.v)

deref(val, fresh) ==
    IF val.k = "imm" THEN val
    ELSE IF val.k = "obj" THEN cloneDeep(val, fresh)
    ELSE val

\* trackGetter with the track flag ignored
trackGetterAlways(cache, code, track) ==
    IF ~has(cache, code) THEN set(cache, code, Placeholder) ELSE cache

\* Lines 79-85: a tracked getter with no entry gets the placeholder entry.
trackGetter(cache, code, track) ==
    IF track /\ ~has(cache, code) THEN set(cache, code, Placeholder) ELSE cache

\* isCached with the comparison of the state hashes left out
isCachedAnyState(cache, state, code) ==
    IF ~has(cache, code) THEN "false"
    ELSE IF ~state.tree THEN "TypeError"
    ELSE IF cache[code].stateHashCode # NullHash THEN "true"
    ELSE "false"

\* isCached that never finds the entry current
isCachedNever(cache, state, code) ==
    IF has(cache, code) /\ ~state.tree THEN "TypeError" ELSE "false"

\* isCached that asks only whether the entry has a value key, which the
\* placeholder has too
isCachedHasValue(cache, state, code) ==
    IF ~has(cache, code) THEN "false"
    ELSE IF ~state.tree THEN "TypeError"
    ELSE "true"

\* __isCached: "TypeError" when state.hashCode() is called on a primitive.
isCached(cache, state, code) ==
    IF ~has(cache, code) THEN "false"
    ELSE IF ~state.tree THEN "TypeError"
    ELSE IF cache[code].stateHashCode = stateHashCode(state) THEN "true"
    ELSE "false"

\* __hasStaleValue: it asks the state tree, not the cache, for the code.  The
\* value a tree holds under a numeric key is no map, so its stateHashCode is
\* undefined and differs from every hash.
hasStaleValue(state, code) ==
    IF ~state.tree THEN "TypeError"
    ELSE IF code \in state.nkeys THEN "true"
    ELSE "false"

\* cacheValue that keeps the value of the entry it overwrites
cacheValueKeepsOld(cache, state, code, args, value) ==
    set(cache, code, [stateHashCode |-> stateHashCode(state),
                      value |-> IF has(cache, code) /\ cache[code].value # NullVal
                                THEN cache[code].value ELSE value,
                      args |-> toImmutableArgs(args)])

\* cacheValue that records no state hash
cacheValueNoHash(cache, state, code, args, value) ==
    set(cache, code, [stateHashCode |-> NullHash,
                      value |-> value,
                      args |-> toImmutableArgs(args)])

cacheValue(cache, state, code, args, value) ==
    set(cache, code, [stateHashCode |-> stateHashCode(state),
                      value |-> value,
                      args |-> toImmutableArgs(args)])

Result(cache, ret, err, calls, path) ==
    [cache |-> cache, ret |-> ret, err |-> err, calls |-> calls, path |-> path]

RECURSIVE evaluate(_, _, _, _)
RECURSIVE mapDeps(_, _, _, _)

\* The one element of a one-element set.  Below, {e(x) : x \in {v}} binds x
\* to the value of v, so that v is worked out once however often e reads it.
The(S) == CHOOSE x \in S : TRUE

RECURSIVE mapDepsUntracked(_, _, _, _)

\* deps.map that evaluates every dependency with track false
mapDepsUntracked(cache, state, deps, track) ==
    IF deps = <<>>
    THEN [cache |-> cache, args |-> <<>>, err |-> "none", calls |-> <<>>]
    ELSE The({ IF h.err # "none"
               THEN [cache |-> h.cache, args |-> <<>>, err |-> h.err,
                     calls |-> h.calls]
               ELSE The({ [cache |-> t.cache, args |-> <<h.ret>> \o t.args,
                           err |-> t.err, calls |-> h.calls \o t.calls]
                          : t \in {mapDepsUntracked(h.cache, state, Tail(deps),
                                                    track)} })
               : h \in {evaluate(cache, state, Head(deps), FALSE)} })

\* deps.map(dep => this.evaluate(state, dep, track)): in order, each seeing
\* the cache the one before left; a throw ends it.
mapDeps(cache, state, deps, track) ==
    IF deps = <<>>
    THEN [cache |-> cache, args |-> <<>>, err |-> "none", calls |-> <<>>]
    ELSE The({ IF h.err # "none"
               THEN [cache |-> h.cache, args |-> <<>>, err |-> h.err,
                     calls |-> h.calls]
               ELSE The({ [cache |-> t.cache, args |-> <<h.ret>> \o t.args,
                           err |-> t.err, calls |-> h.calls \o t.calls]
                          : t \in {mapDeps(h.cache, state, Tail(deps), track)} })
               : h \in {evaluate(cache, state, Head(deps), track)} })

\* The compute function applied and its result cached whether the getter is
\* tracked or not.
applyComputeFnAlwaysCaches(d, state, getter, isTracking) ==
    LET code == hashCode(getter)
        calls == d.calls \o <<code>>
    IN  The({ IF r.err # "none"
              THEN Result(d.cache, NullVal, r.err, calls, "miss")
              ELSE Result(cacheValue(d.cache, state, code, d.args, r.ret),
                          r.ret, "none", calls, "miss")
              : r \in {computeFn(getter, d.args,
                                 freshId(remove(d.cache, code)))} })

\* Lines 117-123: the compute function applied to the args d.args, the result
\* cached when the getter is tracked and returned as it is.
applyComputeFn(d, state, getter, isTracking) ==
    LET code == hashCode(getter)
        calls == d.calls \o <<code>>
    IN  The({ IF r.err # "none"
              THEN Result(d.cache, NullVal, r.err, calls, "miss")
              ELSE Result(IF isTracking
                          THEN cacheValue(d.cache, state, code, d.args, r.ret)
                          ELSE d.cache,
                          r.ret, "none", calls, "miss")
              : r \in {computeFn(getter, d.args,
                                 freshId(remove(d.cache, code)))} })

\* The recompute whose entry is written into the cache as it was before the
\* dependencies were evaluated: what the recursion wrote is lost.
recomputeLosesNested(cache, state, getter, track, isTracking) ==
    The({ IF d.err # "none"
          THEN Result(d.cache, NullVal, d.err, d.calls, "miss")
          ELSE applyComputeFn([d EXCEPT !.cache = cache], state, getter,
                              isTracking)
          : d \in {mapDeps(cache, state, getDeps(getter), track)} })

\* Lines 111-123: no cache hit, evaluate.
recompute(cache, state, getter, track, isTracking) ==
    The({ IF d.err # "none"
          THEN Result(d.cache, NullVal, d.err, d.calls, "miss")
          ELSE applyComputeFn(d, state, getter, isTracking)
          : d \in {mapDeps(cache, state, getDeps(getter), track)} })

\* Lines 76-110 for a Getter with hash code `code`, c1 the cache after the
\* placeholder step.
lookup(c1, state, getter, track, code) ==
    LET isTracking == has(c1, code)
        cached == isCached(c1, state, code)
        stale == hasStaleValue(state, code)
    IN  IF cached = "TypeError"
        THEN Result(c1, NullVal, "TypeError", <<>>, "throw")
        ELSE IF cached = "true"
        THEN Result(c1, deref(c1[code].value, freshId(c1)), "none", <<>>, "hit")
        ELSE IF stale = "TypeError"
        THEN Result(c1, NullVal, "TypeError", <<>>, "throw")
        ELSE IF stale = "true"
        \* line 99 reads `getter`, a name no scope of the module defines
        THEN Result(c1, NullVal, "ReferenceError", <<>>, "stale")
        ELSE recompute(c1, state, getter, track, isTracking)

\* evaluate that hands anything that is not a Getter to the state lookup
evaluateInvalidAsKeyPath(cache, state, item, track) ==
    IF ~isGetter(item)
    THEN Result(cache,
                IF state.tree THEN getIn(state, item.name) ELSE Prim(state.p),
                "none", <<>>, "keypath")
    ELSE The({ lookup(c1, state, item, track, hashCode(item))
               : c1 \in {trackGetter(cache, hashCode(item), track)} })

\* evaluate that calls getIn on whatever state it is handed
evaluateNoPrimitive(cache, state, item, track) ==
    IF isKeyPath(item)
    THEN IF state.tree
         THEN Result(cache, getIn(state, item.name), "none", <<>>, "keypath")
         ELSE Result(cache, NullVal, "TypeError", <<>>, "throw")
    ELSE IF ~isGetter(item)
    THEN Result(cache, NullVal, "invalid", <<>>, "invalid")
    ELSE The({ lookup(c1, state, item, track, hashCode(item))
               : c1 \in {trackGetter(cache, hashCode(item), track)} })

evaluate(cache, state, item, track) ==
    IF isKeyPath(item)
    THEN Result(cache,
                IF state.tree THEN getIn(state, item.name) ELSE Prim(state.p),
                "none", <<>>, "keypath")
    ELSE IF ~isGetter(item)
    THEN Result(cache, NullVal, "invalid", <<>>, "invalid")
    ELSE The({ lookup(c1, state, item, track, hashCode(item))
               : c1 \in {trackGetter(cache, hashCode(item), track)} })

\* reset that leaves the cache as it is
resetNothing(cache) == cache

\* untrack that leaves the entry in place
untrackNothing(cache, getter) == cache

\* untrack that also drops the entries of the getters depending on the getter
untrackCascade(cache, getter) ==
    [c \in {hashCode(g) : g \in {g \in Getters :
                 /\ g # getter
                 /\ \A i \in DOMAIN getDeps(g) : getDeps(g)[i] # getter}}
            \cap DOMAIN cache |-> cache[c]]

untrack(cache, getter) == remove(cache, hashCode(getter))

reset(cache) == EmptyCache

(***************************************************************************)
(* The caller's operations.  last records the latest one: what was passed, *)
(* what came back, the compute functions it invoked (calls), the entry the *)
(* getter had before the call (pre), how the call before relates to it     *)
(* (after), the keys it removed from the cache (dropped) and the getters   *)
(* evaluated with track true, themselves or as a dependency, since the     *)
(* last reset and since their last untrack (since).                        *)
(***************************************************************************)
RECURSIVE Visited(_, _, _, _)
RECURSIVE VisitedDeps(_, _, _, _)

\* The hash codes of the getters evaluate(state, item, track) is called on,
\* the outer call and those of the recursion.
Visited(cache, state, item, track) ==
    IF ~isGetter(item) THEN {}
    ELSE {hashCode(item)} \cup
         The({ IF r.path = "miss"
               THEN VisitedDeps(trackGetter(cache, hashCode(item), track),
                                state, getDeps(item), track)
               ELSE {}
               : r \in {evaluate(cache, state, item, track)} })

VisitedDeps(cache, state, deps, track) ==
    IF deps = <<>> THEN {}
    ELSE The({ Visited(cache, state, Head(deps), track) \cup
               (IF h.err # "none" THEN {}
                ELSE VisitedDeps(h.cache, state, Tail(deps), track))
               : h \in {evaluate(cache, state, Head(deps), track)} })

NoPre == [has |-> FALSE, entry |-> Placeholder]

preOf(cache, item) ==
    IF isGetter(item) /\ has(cache, hashCode(item))
    THEN [has |-> TRUE, entry |-> cache[hashCode(item)]]
    ELSE NoPre

depGetters(item) ==
    IF isGetter(item)
    THEN {getDeps(item)[i] : i \in DOMAIN getDeps(item)} \cap Getters
    ELSE {}

sameState(s1, s2) ==
    s1.tree /\ s2.tree /\ stateHashCode(s1) = stateHashCode(s2)

afterOf(item, state) ==
    IF last.op = "untrack" /\ last.item = item
    THEN IF /\ state.tree /\ last.pre.has
            /\ last.pre.entry.stateHashCode = stateHashCode(state)
         THEN "untrackSelfSame" ELSE "untrackSelf"
    ELSE IF last.op = "untrack" /\ last.item \in depGetters(item) THEN "untrackDep"
    ELSE IF last.op = "reset"
    THEN IF isGetter(item) /\ hashCode(item) \in last.dropped
         THEN "resetTracked" ELSE "reset"
    ELSE IF /\ last.op \in {"evaluate", "mutate"} /\ last.item = item
            /\ last.err = "none" /\ sameState(last.state, state)
    THEN IF last.op = "mutate" THEN "mutated" ELSE "sameEval"
    ELSE "other"

NoCall == [op |-> "init", item |-> Invalid, state |-> PrimState, track |-> FALSE,
           ret |-> NullVal, err |-> "none", calls |-> <<>>, path |-> "none",
           pre |-> NoPre, after |-> "other", dropped |-> {}, since |-> {}]

Init ==
    /\ cachedGetters = EmptyCache
    /\ last = NoCall
    /\ frames = <<>>

Evaluate ==
    \E state \in States, item \in Items, track \in BOOLEAN :
        \E r \in {evaluate(cachedGetters, state, item, track)} :
            /\ frames = <<>>
            /\ UNCHANGED frames
            /\ cachedGetters' = r.cache
            /\ last' = [op |-> "evaluate", item |-> item, state |-> state,
                        track |-> track, ret |-> r.ret, err |-> r.err,
                        calls |-> r.calls, path |-> r.path,
                        pre |-> preOf(cachedGetters, item),
                        after |-> afterOf(item, state),
                        dropped |-> {},
                        since |-> last.since \cup
                            (IF track
                             THEN Visited(cachedGetters, state, item, track)
                             ELSE {})]

Untrack ==
    \E getter \in Getters :
        /\ frames = <<>>
        /\ UNCHANGED frames
        /\ cachedGetters' = untrack(cachedGetters, getter)
        /\ last' = [NoCall EXCEPT !.op = "untrack", !.item = getter,
                                  !.pre = preOf(cachedGetters, getter),
                                  !.dropped = DOMAIN cachedGetters
                                              \ DOMAIN cachedGetters',
                                  !.since = last.since \ {hashCode(getter)}]

Reset ==
    /\ frames = <<>>
    /\ UNCHANGED frames
    /\ cachedGetters' = reset(cachedGetters)
    /\ last' = [NoCall EXCEPT !.op = "reset",
                              !.dropped = DOMAIN cachedGetters
                                          \ DOMAIN cachedGetters']

\* What a caller writes into an object: no compute function yields it.
Scribble == 0 - 1

\* The caller writes to the plain object the latest evaluate handed it: every
\* holder of that object sees the write.  last.ret stays what evaluate
\* returned.
Mutate ==
    /\ last.op = "evaluate"
    /\ last.err = "none"
    /\ last.ret.k = "obj"
    /\ cachedGetters' =
          [c \in DOMAIN cachedGetters |->
              IF cachedGetters[c].value.k = "obj"
                 /\ cachedGetters[c].value.id = last.ret.id
              THEN [cachedGetters[c] EXCEPT !.value.v = Scribble]
              ELSE cachedGetters[c]]
    /\ last' = [last EXCEPT !.op = "mutate"]
    /\ UNCHANGED frames

Next == Evaluate \/ Untrack \/ Reset

NextCaller == Next \/ Mutate

\* The Evaluator under any sequence of evaluate, untrack and reset
Spec == Init /\ [][Next]_vars

\* The same, with callers that write to the objects evaluate returned
SpecCaller == Init /\ [][NextCaller]_vars

(***************************************************************************)
(* evaluate step by step.  frames is the stack of the calls of evaluate    *)
(* that have not returned, the outer call first; a frame holds the item    *)
(* the call was handed, where the call stands (pc: "enter" before line 64, *)
(* "deps" inside deps.map), isTracking of line 76 and the values deps.map  *)
(* has collected.  state and track are those of the outer call, kept in    *)
(* last; JavaScript runs the call to completion, so untrack, reset and     *)
(* another outer evaluate wait for the stack to be empty.                  *)
(***************************************************************************)
Frame(item) ==
    [item |-> item, pc |-> "enter", isTracking |-> FALSE, args |-> <<>>]

top == frames[Len(frames)]

\* The return that drops the value: deps.map does not move on
returnValueDropped(fs, val) == SubSeq(fs, 1, Len(fs) - 1)

\* The stack after the call on top returned val: val is the next element of
\* the caller's deps.map.
returnValue(fs, val) ==
    IF Len(fs) = 1 THEN <<>>
    ELSE [SubSeq(fs, 1, Len(fs) - 1) EXCEPT ![Len(fs) - 1].args = @ \o <<val>>]

\* what the caller of the outer call sees when the call on top returns val
returned(l, fs, val, path) ==
    IF Len(fs) = 1 THEN [l EXCEPT !.ret = val, !.path = path] ELSE l

\* a throw unwinds every frame: no call of evaluate catches
thrown(l, fs, err, path) ==
    [l EXCEPT !.err = err, !.path = IF Len(fs) = 1 THEN path ELSE "miss"]

\* evaluate(state, item, track) called from outside
Call ==
    \E state \in States, item \in Items, track \in BOOLEAN :
        /\ frames = <<>>
        /\ frames' = <<Frame(item)>>
        /\ last' = [NoCall EXCEPT !.op = "evaluate", !.item = item,
                                  !.state = state, !.track = track,
                                  !.path = "running", !.since = last.since]
        /\ UNCHANGED cachedGetters

\* Lines 64-71
EnterKeyPath ==
    /\ frames # <<>>
    /\ top.pc = "enter"
    /\ isKeyPath(top.item)
    /\ \E val \in {IF last.state.tree THEN getIn(last.state, top.item.name)
                    ELSE Prim(last.state.p)} :
          /\ frames' = returnValue(frames, val)
          /\ last' = returned(last, frames, val, "keypath")
    /\ UNCHANGED cachedGetters

\* Lines 72-74
EnterInvalid ==
    /\ frames # <<>>
    /\ top.pc = "enter"
    /\ ~isKeyPath(top.item) /\ ~isGetter(top.item)
    /\ frames' = <<>>
    /\ last' = thrown(last, frames, "invalid", "invalid")
    /\ UNCHANGED cachedGetters

\* Lines 76-110: the placeholder step, then a hit returns, a stale value or a
\* state without hashCode throws, and anything else goes on to deps.map.
EnterGetter ==
    /\ frames # <<>>
    /\ top.pc = "enter"
    /\ isGetter(top.item)
    /\ \E code \in {hashCode(top.item)} :
       \E c1 \in {trackGetter(cachedGetters, code, last.track)} :
       \E l \in {[last EXCEPT !.since = IF last.track THEN @ \cup {code}
                                        ELSE @]} :
       \E cached \in {isCached(c1, last.state, code)} :
       \E stale \in {hasStaleValue(last.state, code)} :
          /\ cachedGetters' = c1
          /\ IF cached = "TypeError"
             THEN /\ frames' = <<>>
                  /\ last' = thrown(l, frames, "TypeError", "throw")
             ELSE IF cached = "true"
             THEN \E val \in {deref(c1[code].value, freshId(c1))} :
                     /\ frames' = returnValue(frames, val)
                     /\ last' = returned(l, frames, val, "hit")
             ELSE IF stale = "TypeError"
             THEN /\ frames' = <<>>
                  /\ last' = thrown(l, frames, "TypeError", "throw")
             ELSE IF stale = "true"
             THEN /\ frames' = <<>>
                  /\ last' = thrown(l, frames, "ReferenceError", "stale")
             ELSE /\ frames' = [frames EXCEPT
                                  ![Len(frames)].pc = "deps",
                                  ![Len(frames)].isTracking = has(c1, code)]
                  /\ last' = l

\* Lines 114-116: deps.map calls evaluate on the next dependency
EvalDep ==
    /\ frames # <<>>
    /\ top.pc = "deps"
    /\ Len(top.args) < Len(getDeps(top.item))
    /\ frames' = Append(frames, Frame(getDeps(top.item)[Len(top.args) + 1]))
    /\ UNCHANGED <<cachedGetters, last>>

\* Lines 117-123: every dependency has its value; the compute function is
\* applied, its result cached when the getter is tracked, and returned.
ApplyComputeFn ==
    /\ frames # <<>>
    /\ top.pc = "deps"
    /\ Len(top.args) = Len(getDeps(top.item))
    /\ \E code \in {hashCode(top.item)} :
       \E l \in {[last EXCEPT !.calls = @ \o <<code>>]} :
       \E r \in {computeFn(top.item, top.args,
                           freshId(remove(cachedGetters, code)))} :
          IF r.err # "none"
          THEN /\ frames' = <<>>
               /\ last' = thrown(l, frames, r.err, "miss")
               /\ UNCHANGED cachedGetters
          ELSE /\ cachedGetters' =
                     IF top.isTracking
                     THEN cacheValue(cachedGetters, last.state, code,
                                     top.args, r.ret)
                     ELSE cachedGetters
               /\ frames' = returnValue(frames, r.ret)
               /\ last' = returned(l, frames, r.ret, "miss")

\* a step of the call that is running
Step ==
    EnterKeyPath \/ EnterInvalid \/ EnterGetter \/ EvalDep \/ ApplyComputeFn

NextSteps == Call \/ Step \/ Untrack \/ Reset

\* The Evaluator with evaluate taken step by step: a call that has begun
\* keeps running until it returns or throws.
SpecSteps == Init /\ [][NextSteps]_vars /\ WF_vars(Step)

(***************************************************************************)
(* What the claims speak of.                                               *)
(***************************************************************************)
RECURSIVE Ref(_, _)
\* The uncached evaluation of a KeyPath or Getter on a state tree: the
\* compute function applied to the resolved values of the dependencies.
Ref(state, item) ==
    IF isKeyPath(item)
    THEN [err |-> "none", ret |-> getIn(state, item.name)]
    ELSE LET deps == getDeps(item)
             rs == [i \in DOMAIN deps |-> Ref(state, deps[i])]
         IN  IF \E i \in DOMAIN deps : rs[i].err # "none"
             THEN [err |-> "compute", ret |-> NullVal]
             ELSE computeFn(item, [i \in DOMAIN deps |-> rs[i].ret], 1)

\* Every dependency of the getter resolves on the state
DepsResolve(state, getter) ==
    \A i \in DOMAIN getDeps(getter) : Ref(state, getDeps(getter)[i]).err = "none"

\* The resolved values of the getter's dependencies, as an args snapshot
ResolvedArgs(state, getter) ==
    toImmutableArgs([i \in DOMAIN getDeps(getter) |->
                        Ref(state, getDeps(getter)[i]).ret])

Count(code, calls) == Cardinality({i \in DOMAIN calls : calls[i] = code})

EvaluatedGetter == last.op = "evaluate" /\ isGetter(last.item)

LastCode == hashCode(last.item)

\* C1: every evaluate of a Getter that returns normally returns the value of
\* the uncached evaluation of the getter on that state.
C1_CacheTransparency ==
    (EvaluatedGetter /\ last.err = "none") =>
        /\ Ref(last.state, last.item).err = "none"
        /\ SameContent(last.ret, Ref(last.state, last.item).ret)

\* A hit on G3 that came after its entry went through another state
C1_Witness ==
    /\ EvaluatedGetter /\ last.item = Getter("G3") /\ last.err = "none"
    /\ last.path = "hit" /\ last.after = "other"
    /\ last.ret = Imm(1011)

\* C2: a tracked getter evaluated twice in a row against states of the same
\* hash: the second call returns normally an equal value and invokes no
\* compute function, and the first invoked the getter's own at most once.
C2_ExactHit ==
    [][ ( /\ EvaluatedGetter /\ last.err = "none"
          /\ has(cachedGetters, LastCode)
          /\ last'.op = "evaluate" /\ last'.item = last.item
          /\ sameState(last.state, last'.state) )
        => ( /\ last'.err = "none"
             /\ last'.calls = <<>>
             /\ SameContent(last'.ret, last.ret)
             /\ Count(LastCode, last.calls) <= 1 ) ]_vars

\* The second of two evaluations of G3 on one state, the first of which
\* computed it
C2_Witness ==
    /\ EvaluatedGetter /\ last.item = Getter("G3") /\ last.after = "sameEval"
    /\ last.pre.has /\ last.path = "hit" /\ last.calls = <<>>
    /\ last.err = "none"

\* The getter had an entry recorded under another state hash, and the resolved
\* values of its dependencies are the recorded args
StaleUnchanged ==
    /\ EvaluatedGetter /\ last.state.tree
    /\ last.pre.has /\ last.pre.entry.stateHashCode # NullHash
    /\ last.pre.entry.stateHashCode # stateHashCode(last.state)
    /\ DepsResolve(last.state, last.item)
    /\ last.pre.entry.args = ResolvedArgs(last.state, last.item)

\* C3: an entry recorded under another state hash whose args are the resolved
\* dependency values: the compute function is not invoked again and the value
\* returned is the cached one.
C3_StaleUnchangedFastPath ==
    StaleUnchanged =>
        /\ Count(LastCode, last.calls) = 0
        /\ last.err = "none"
        /\ SameContent(last.ret, last.pre.entry.value)

\* The getter had an entry (the placeholder too), and the resolved values of
\* its dependencies are not the recorded args
ArgsChanged ==
    /\ EvaluatedGetter /\ last.state.tree
    /\ last.pre.has
    /\ DepsResolve(last.state, last.item)
    /\ last.pre.entry.args # ResolvedArgs(last.state, last.item)

\* C4: an entry whose recorded args differ from the resolved dependency
\* values: the getter's compute function is invoked exactly once in the call,
\* and what the call returns is its result on the resolved values.
C4_RecomputeOnChange ==
    ArgsChanged =>
        /\ Count(LastCode, last.calls) = 1
        /\ last.err \in {"none", "compute"}
        /\ last.err = "none" =>
              SameContent(last.ret, Ref(last.state, last.item).ret)
        /\ last.err = "compute" => Ref(last.state, last.item).err = "compute"

\* G2 recomputed over a recorded entry because "u" changed
C4_Witness ==
    /\ ArgsChanged /\ last.item = Getter("G2")
    /\ last.pre.entry.stateHashCode # NullHash
    /\ last.err = "none" /\ last.calls = <<hashCode(Getter("G2"))>>
    /\ ~SameContent(last.ret, last.pre.entry.value)

\* The call was tracked: track was true or the getter had an entry
Tracked == last.track \/ last.pre.has

\* C5: after an evaluate of a Getter that returns normally, tracked, the
\* getter's entry records the hash of the state and the value returned, so
\* that it is current for that state.
C5_EntryRefresh ==
    (EvaluatedGetter /\ last.err = "none" /\ Tracked) =>
        /\ has(cachedGetters, LastCode)
        /\ cachedGetters[LastCode].stateHashCode = stateHashCode(last.state)
        /\ SameContent(cachedGetters[LastCode].value, last.ret)
        /\ isCached(cachedGetters, last.state, LastCode) = "true"

\* An untracked evaluate that recomputed over the entry the getter had
C5_Witness ==
    /\ EvaluatedGetter /\ last.err = "none" /\ ~last.track /\ last.pre.has
    /\ last.path = "miss"
    /\ last.pre.entry.stateHashCode # NullHash
    /\ cachedGetters[LastCode].stateHashCode # last.pre.entry.stateHashCode

\* C6: evaluate with track false leaves the set of keys of the cache as it
\* was.
C6_UntrackedCreatesNothing ==
    [][ (last'.op = "evaluate" /\ ~last'.track)
        => DOMAIN cachedGetters' = DOMAIN cachedGetters ]_vars

\* An untracked evaluate of G3 that computed G1 (twice), G2 and G3 and left no entry
C6_Witness ==
    /\ EvaluatedGetter /\ last.item = Getter("G3") /\ ~last.track
    /\ last.err = "none" /\ Len(last.calls) = 4
    /\ DOMAIN cachedGetters = {}

\* The getter's own compute function threw
OwnComputeThrew ==
    /\ EvaluatedGetter /\ last.err = "compute"
    /\ last.calls # <<>> /\ last.calls[Len(last.calls)] = LastCode

\* C7: when the compute function of the getter throws, the getter has no
\* entry if it had none before the call, and the entry it had otherwise.
C7_FailedComputeLeavesNoTrace ==
    OwnComputeThrew =>
        IF last.pre.has
        THEN has(cachedGetters, LastCode)
             /\ cachedGetters[LastCode] = last.pre.entry
        ELSE ~has(cachedGetters, LastCode)

\* C8: an evaluate of a tracked getter that returned a plain object, the
\* caller's write to that object, then an evaluate of the getter against the
\* same state: it returns what the first returned.
C8_DefensiveCopy ==
    [][ ( /\ last.op = "mutate" /\ has(cachedGetters, LastCode)
          /\ last'.op = "evaluate" /\ last'.item = last.item
          /\ sameState(last.state, last'.state) )
        => ( last'.err = "none" /\ SameContent(last'.ret, last.ret) ) ]_vars

\* C9: untrack removes the entry of the getter and no other, and a getter
\* depending on it, evaluated next against the state its entry records, is
\* served from the cache without a compute function invoked.
C9_UntrackFrame ==
    [][ /\ last'.op = "untrack" =>
            /\ DOMAIN cachedGetters' = DOMAIN cachedGetters \ {hashCode(last'.item)}
            /\ \A c \in DOMAIN cachedGetters' : cachedGetters'[c] = cachedGetters[c]
        /\ ( /\ last'.op = "evaluate" /\ last'.after = "untrackDep"
             /\ last'.state.tree /\ last'.pre.has
             /\ last'.pre.entry.stateHashCode = stateHashCode(last'.state) )
           => ( last'.err = "none" /\ last'.calls = <<>> /\ last'.path = "hit" )
      ]_vars

\* G3 served from the cache right after G2, which had an entry, was untracked
C9_Witness ==
    /\ EvaluatedGetter /\ last.item = Getter("G3") /\ last.after = "untrackDep"
    /\ last.path = "hit" /\ last.err = "none" /\ last.calls = <<>>
    /\ ~has(cachedGetters, hashCode(Getter("G2")))
    /\ has(cachedGetters, hashCode(Getter("G1")))

\* C10: the evaluate that follows untrack of the getter invokes the getter's
\* compute function, whatever state tree it is given, when the dependencies
\* resolve.
C10_RecomputeAfterUntrack ==
    ( /\ EvaluatedGetter /\ last.after \in {"untrackSelf", "untrackSelfSame"}
      /\ last.state.tree /\ DepsResolve(last.state, last.item) )
    => ( last.path = "miss" /\ Count(LastCode, last.calls) = 1 )

\* G3 evaluated against the state its entry recorded, the entry removed by
\* untrack just before: computed again, its dependencies served from the cache
C10_Witness ==
    /\ EvaluatedGetter /\ last.item = Getter("G3")
    /\ last.after = "untrackSelfSame" /\ ~last.pre.has
    /\ last.err = "none" /\ last.calls = <<hashCode(Getter("G3"))>>

\* C11: reset leaves the cache empty, and the evaluate that follows it, of a
\* getter that had an entry before or of another, does what it does on a new
\* Evaluator: it invokes the getter's compute function when the dependencies
\* resolve.
C11_ResetClears ==
    /\ last.op = "reset" => DOMAIN cachedGetters = {}
    /\ ( /\ EvaluatedGetter /\ last.after \in {"reset", "resetTracked"} )
       => ( /\ ~last.pre.has
            /\ last.state.tree /\ DepsResolve(last.state, last.item)
                  => (last.path = "miss" /\ Count(LastCode, last.calls) = 1)
            /\ LET fresh == evaluate(EmptyCache, last.state, last.item, last.track)
               IN  /\ cachedGetters = fresh.cache
                   /\ last.ret = fresh.ret /\ last.err = fresh.err
                   /\ last.calls = fresh.calls )

\* G3, which had an entry before the reset, evaluated right after it against
\* a tree: G1, G2 and G3 are computed again
C11_Witness ==
    /\ EvaluatedGetter /\ last.item = Getter("G3")
    /\ last.after = "resetTracked" /\ last.track
    /\ last.err = "none" /\ Len(last.calls) = 3

\* C12: evaluate of a value that is neither a KeyPath nor a Getter raises the
\* error of line 73 and leaves the cache as it was, whatever the cache holds
\* and whatever track is.
C12_InvalidArgument ==
    [][ ( /\ last'.op = "evaluate"
          /\ ~isKeyPath(last'.item) /\ ~isGetter(last'.item) )
        => ( /\ last'.err = "invalid"
             /\ last'.calls = <<>>
             /\ cachedGetters' = cachedGetters ) ]_vars

\* an invalid value evaluated with track true on a cache that holds a value
C12_Witness ==
    /\ last.op = "evaluate" /\ last.item = Invalid /\ last.track
    /\ last.err = "invalid"
    /\ \E c \in DOMAIN cachedGetters : cachedGetters[c] # Placeholder

\* C13: evaluate of a KeyPath returns the value the tree holds at the path,
\* or the state itself when the state has no getIn, and leaves the cache as
\* it was, for either track.
C13_KeyPathLookup ==
    [][ (last'.op = "evaluate" /\ isKeyPath(last'.item))
        => ( /\ last'.err = "none"
             /\ last'.calls = <<>>
             /\ last'.state.tree /\ last'.item.name = "a"
                   => last'.ret = Prim(last'.state.a)
             /\ ~last'.state.tree => last'.ret = Prim(last'.state.p)
             /\ cachedGetters' = cachedGetters ) ]_vars

\* the KeyPath evaluated with track true against the primitive state, on a
\* cache that holds a value
C13_Witness ==
    /\ last.op = "evaluate" /\ isKeyPath(last.item) /\ last.track
    /\ ~last.state.tree /\ last.ret = Prim(PrimState.p)
    /\ \E c \in DOMAIN cachedGetters : cachedGetters[c] # Placeholder

\* C14: in every reachable state each key of the cache is the hash code of a
\* Getter, never of a KeyPath, and that Getter has been evaluated with track
\* true, itself or as a dependency inside a tracked evaluation, since the
\* last reset and since its last untrack.
C14_EntryLifecycle ==
    \A c \in DOMAIN cachedGetters :
        /\ c \in {hashCode(g) : g \in Getters}
        /\ c \in last.since

\* after a reset G3 alone was evaluated with track true: G1 and G2 have their
\* entries as its dependencies
C14_Witness ==
    /\ EvaluatedGetter /\ last.item = Getter("G3") /\ last.track
    /\ last.after \in {"reset", "resetTracked"}
    /\ DOMAIN cachedGetters = {101, 102, 103}
    /\ last.since = {101, 102, 103}

\* The position of the first occurrence of code in calls, 0 when there is none.
FirstCall(code, calls) ==
    IF Count(code, calls) = 0 THEN 0
    ELSE CHOOSE i \in 1..Len(calls) :
            /\ calls[i] = code
            /\ \A j \in 1..(i - 1) : calls[j] # code

\* C15: when evaluate(state, getter, true) recomputes and returns, the
\* dependencies were evaluated with track true and in the order of the
\* getter's list, and the cache then holds an entry recorded under the hash
\* of state for the getter and for each Getter among its dependencies: what
\* the recursion wrote is still there once the outer entry is written.
C15_TrackedRecursion ==
    ( /\ EvaluatedGetter /\ last.track
      /\ last.path = "miss" /\ last.err = "none" )
    => LET deps == getDeps(last.item)
           nested == {i \in DOMAIN deps : isGetter(deps[i])}
       IN  /\ \A g \in {last.item} \cup {deps[i] : i \in nested} :
                 /\ has(cachedGetters, hashCode(g))
                 /\ cachedGetters[hashCode(g)].stateHashCode
                      = stateHashCode(last.state)
                 /\ hashCode(g) \in last.since
           /\ last.calls[Len(last.calls)] = LastCode
           /\ \A i, j \in nested :
                 ( /\ i < j
                   /\ FirstCall(hashCode(deps[i]), last.calls) > 0
                   /\ FirstCall(hashCode(deps[j]), last.calls) > 0 )
                 => FirstCall(hashCode(deps[i]), last.calls)
                      < FirstCall(hashCode(deps[j]), last.calls)
           /\ \A i \in DOMAIN deps :
                 SameContent(cachedGetters[LastCode].args.vals[i],
                             toImmutable(Ref(last.state, deps[i]).ret))

\* G3 recomputed with track true when neither G1 nor G2 nor G3 was current:
\* the three entries stand under the hash of the state
C15_Witness ==
    /\ EvaluatedGetter /\ last.item = Getter("G3") /\ last.track
    /\ last.path = "miss" /\ last.err = "none"
    /\ last.calls = <<101, 102, 103>>
    /\ \A c \in {101, 102, 103} :
          /\ has(cachedGetters, c)
          /\ cachedGetters[c].stateHashCode = stateHashCode(last.state)

\* C16: on the finite acyclic graph of G1, G2 and G3, whose compute functions
\* return or throw, every call of evaluate that has begun, from whatever cache
\* the calls before left and for either track, returns or throws: the stack
\* of running calls, never deeper than the graph plus a KeyPath, empties.
C16_Termination ==
    /\ [](Len(frames) <= Cardinality(Getters) + 1)
    /\ (frames # <<>>) ~> (frames = <<>>)

\* the outer call on G3 has returned after G1, G2 and G3 were computed inside
\* it
C16_Witness ==
    /\ frames = <<>>
    /\ last.op = "evaluate" /\ last.item = Getter("G3")
    /\ last.path = "miss" /\ last.err = "none"
    /\ last.calls = <<101, 102, 103>>

\* C17: within one evaluate(state, getter, true) in which no compute function
\* throws, no getter's compute function is invoked more than once, however
\* many paths of the dependency graph lead to the getter (G1 is a dependency
\* of G3 and of G3's dependency G2).
C17_SharedDependencyOnce ==
    (EvaluatedGetter /\ last.track /\ last.err # "compute")
    => \A c \in Codes : Count(c, last.calls) <= 1

\* G3 evaluated with track true when it had no entry and G1 had none that is
\* current: G1, reached twice, is computed once
C17_Witness ==
    /\ EvaluatedGetter /\ last.item = Getter("G3") /\ last.track
    /\ ~last.pre.has /\ last.err = "none"
    /\ Count(101, last.calls) = 1 /\ Count(102, last.calls) = 1

\* C18: the placeholder is never returned as a cache hit: every value evaluate
\* returns for a Getter, also after a compute function threw and left the
\* placeholder behind, is the result of a completed invocation of the
\* getter's compute function, made in this call or recorded, with the args it
\* was made on, in the entry that is served.
C18_PlaceholderNeverServed ==
    (EvaluatedGetter /\ last.err = "none")
    => /\ last.path \in {"hit", "miss"}
       /\ last.ret # NullVal
       /\ last.path = "hit"
             => /\ last.pre.has
                /\ last.pre.entry # Placeholder
                /\ last.pre.entry.stateHashCode # NullHash
                /\ ~last.pre.entry.args.null
                /\ SameContent(last.ret,
                       computeFn(last.item, last.pre.entry.args.vals, 0).ret)
       /\ last.path = "miss"
             => /\ last.calls # <<>>
                /\ last.calls[Len(last.calls)] = LastCode

\* an evaluate that found the placeholder a failed evaluation had left, and
\* returned the value it computed
C18_Witness ==
    /\ EvaluatedGetter /\ last.err = "none"
    /\ last.pre.has /\ last.pre.entry = Placeholder
    /\ last.path = "miss" /\ last.ret # NullVal

\* C19: __hasStaleValue(state, getter) is true exactly when the cache holds an
\* entry for the getter recorded under a hash other than that of state, so
\* that every evaluate of a getter with such an entry enters the branch of
\* lines 95-110 before any recompute.
C19_StaleDetection ==
    (EvaluatedGetter /\ last.state.tree)
    => LET held == /\ last.pre.has
                   /\ last.pre.entry.stateHashCode # NullHash
                   /\ last.pre.entry.stateHashCode # stateHashCode(last.state)
       IN  /\ (hasStaleValue(last.state, LastCode) = "true") <=> held
           /\ held => last.path = "stale"

====
